---- MODULE Spec2Model ----
(***************************************************************************)
(* The arithmetic fixture libraries of example/rust-project and            *)
(* example/rust+bats: add, multiply, is_even and combined_add over i32,    *)
(* driven by callers (the unit and integration tests).                     *)
(*                                                                         *)
(* An i32 is modelled by its value in I32_MIN..I32_MAX.  The operators +   *)
(* and * are computed as the machine computes them: on the two's           *)
(* complement bytes of the operands, sign-extended to 64 bits, so that the *)
(* 32-bit result and the overflow condition are both results of the        *)
(* computation and not of the mathematical sum or product.  What rustc     *)
(* does on overflow depends on the build (overflow-checks on: panic, off:  *)
(* wrap); the build is chosen once, in Init.                               *)
(***************************************************************************)
EXTENDS Integers, Sequences, FiniteSets

VARIABLES
    overflow_checks,  \* the build: TRUE = debug/test profile, FALSE = release
    cur,              \* the call in progress (NoCall when the caller is idle)
    chain,            \* the add call whose result was passed on to multiply
    seen              \* an earlier call, kept by the observer of SpecPure

vars == <<overflow_checks, cur, chain, seen>>

(***************************************************************************)
(* i32                                                                     *)
(***************************************************************************)
I32_MAX == 2147483647

I32_MIN == -I32_MAX - 1

\* Bounds of the inputs the callers draw.
MaxSmall == 6

MaxEdge == 1

MaxPure == 1

SmallValues == (-MaxSmall)..MaxSmall

EdgeValues == {I32_MIN + k : k \in 0..MaxEdge} \cup {I32_MAX - k : k \in 0..MaxEdge}

\* Operands around the square root of 2^31 and 2^16, where products overflow.
MidValues == {46340, 46341, -46341, 65536}

Values == SmallValues \cup EdgeValues \cup MidValues

PureValues == ((-MaxPure)..MaxPure) \cup {I32_MIN, I32_MAX}

(***************************************************************************)
(* Two's complement arithmetic on bytes, least significant first.          *)
(***************************************************************************)
Pow256 == <<1, 256, 65536, 16777216>>

\* Byte i (0..3) of the 32-bit two's complement representation of x.
Byte(x, i) == (x \div Pow256[i + 1]) % 256

\* x sign-extended to 64 bits: bytes 0..7.
Wide(x) == [i \in 0..7 |-> IF i < 4 THEN Byte(x, i) ELSE IF x < 0 THEN 255 ELSE 0]

\* Carry propagation of column sums, modulo 2^64.
Normalize(cols) ==
    LET carry[i \in 0..7] ==
            IF i = 0 THEN 0 ELSE (cols[i - 1] + carry[i - 1]) \div 256
    IN  [i \in 0..7 |-> (cols[i] + carry[i]) % 256]

AddCols(X, Y) == [k \in 0..7 |-> X[k] + Y[k]]

RECURSIVE ColumnSum(_, _, _, _)
ColumnSum(X, Y, k, i) ==
    IF i > k THEN 0 ELSE X[i] * Y[k - i] + ColumnSum(X, Y, k, i + 1)

MulCols(X, Y) == [k \in 0..7 |-> ColumnSum(X, Y, k, 0)]

\* The low 32 bits of a 64-bit result, read as an i32.
Low32(W) ==
    (IF W[3] >= 128 THEN W[3] - 256 ELSE W[3]) * Pow256[4]
        + W[2] * Pow256[3] + W[1] * Pow256[2] + W[0]

\* The 64-bit result is the sign extension of its low 32 bits: no overflow.
Fits(W) == \A i \in 4..7 : W[i] = (IF W[3] >= 128 THEN 255 ELSE 0)

(***************************************************************************)
(* Outcomes of a call.                                                     *)
(***************************************************************************)
Returned(v) == [kind |-> "return", value |-> v]

Panicked == [kind |-> "panic", value |-> 0]

I32Arith_wrapping(W) == Returned(Low32(W))

\* rustc's lowering of an i32 operator: with overflow checks the operation
\* panics when the result does not fit, without them it wraps.
I32Arith(W) ==
    IF overflow_checks /\ ~Fits(W) THEN Panicked ELSE Returned(Low32(W))

I32Add(a, b) == I32Arith(Normalize(AddCols(Wide(a), Wide(b))))

I32Mul(a, b) == I32Arith(Normalize(MulCols(Wide(a), Wide(b))))

\* Rust's % on i32: the remainder of truncating division, with the sign of
\* the dividend (d > 0 here).
Rem(n, d) ==
    LET m == n % d
    IN  IF n >= 0 \/ m = 0 THEN m ELSE m - d

(***************************************************************************)
(* The library functions.                                                  *)
(***************************************************************************)
\* Variants with a slip in them, used to show that the properties below depend
\* on the functions: a * b for a + b, a + b for a * b, n % 2 != 1 for
\* n % 2 == 0, wrapping_add for +, and a sum that carries an earlier result.
add_as_multiply(a, b) == I32Mul(a, b)

add_accumulating(a, b) ==
    IF seen.fn = "add" /\ seen.out.kind = "return"
    THEN I32Add(seen.out.value, b)
    ELSE I32Add(a, b)

multiply_as_add(a, b) == I32Add(a, b)

is_even_not_one(n) == Returned(Rem(n, 2) # 1)

combined_add_wrapping(a, b) ==
    Returned(Low32(Normalize(AddCols(Wide(a), Wide(b)))))

add(a, b) == I32Add(a, b)

multiply(a, b) == I32Mul(a, b)

is_even(n) == Returned(Rem(n, 2) = 0)

combined_add(a, b) == I32Add(a, b)

(***************************************************************************)
(* The callers.                                                            *)
(***************************************************************************)
Call(fn, args, out) == [fn |-> fn, args |-> args, out |-> out]

NoCall == Call("none", <<>>, [kind |-> "none", value |-> 0])

Init ==
    /\ overflow_checks \in BOOLEAN
    /\ cur = NoCall
    /\ chain = NoCall
    /\ seen = NoCall

CallAdd(S) ==
    \E a \in S, b \in S :
        /\ cur = NoCall
        /\ cur' = Call("add", <<a, b>>, add(a, b))
        /\ UNCHANGED <<overflow_checks, chain, seen>>

CallMultiply(S) ==
    \E a \in S, b \in S :
        /\ cur = NoCall
        /\ cur' = Call("multiply", <<a, b>>, multiply(a, b))
        /\ UNCHANGED <<overflow_checks, chain, seen>>

CallIsEven(S) ==
    \E n \in S :
        /\ cur = NoCall
        /\ cur' = Call("is_even", <<n>>, is_even(n))
        /\ UNCHANGED <<overflow_checks, chain, seen>>

CallCombinedAdd(S) ==
    \E a \in S, b \in S :
        /\ cur = NoCall
        /\ cur' = Call("combined_add", <<a, b>>, combined_add(a, b))
        /\ UNCHANGED <<overflow_checks, chain, seen>>

\* let result = add(a, b); let multiplied = multiply(result, c);
MultiplyResult(S) ==
    \E c \in S :
        /\ cur.fn = "add"
        /\ cur.out.kind = "return"
        /\ chain = NoCall
        /\ cur' = Call("multiply", <<cur.out.value, c>>, multiply(cur.out.value, c))
        /\ chain' = cur
        /\ UNCHANGED <<overflow_checks, seen>>

\* The caller is done with the call: it returned, or the panic unwound.
Finish ==
    /\ cur # NoCall
    /\ cur' = NoCall
    /\ chain' = NoCall
    /\ UNCHANGED <<overflow_checks, seen>>

\* The caller is done with the call and the observer keeps it, to compare
\* later calls with it.
Remember ==
    /\ cur # NoCall
    /\ seen' = cur
    /\ cur' = NoCall
    /\ chain' = NoCall
    /\ UNCHANGED overflow_checks

Next ==
    \/ CallAdd(Values)
    \/ CallMultiply(Values)
    \/ CallIsEven(Values)
    \/ CallCombinedAdd(Values)
    \/ MultiplyResult(Values)
    \/ Finish

Spec == Init /\ [][Next]_vars

NextPure ==
    \/ CallAdd(PureValues)
    \/ CallMultiply(PureValues)
    \/ CallIsEven(PureValues)
    \/ CallCombinedAdd(PureValues)
    \/ MultiplyResult(PureValues)
    \/ Finish
    \/ Remember

SpecPure == Init /\ [][NextPure]_vars

(***************************************************************************)
(* Properties.  The in-range conditions are stated on the mathematical     *)
(* sum and product, independently of the byte arithmetic above.            *)
(***************************************************************************)
SumInRange(a, b) ==
    IF b >= 0 THEN a <= I32_MAX - b ELSE a >= I32_MIN - b

ProdInRange(a, b) ==
    \/ a = 0
    \/ b = 0
    \/ a > 0 /\ b > 0 /\ a <= I32_MAX \div b
    \/ a > 0 /\ b < 0 /\ b >= (I32_MIN + a - 1) \div a
    \/ a < 0 /\ b > 0 /\ a >= (I32_MIN + b - 1) \div b
    \/ a < 0 /\ b < 0 /\ a # I32_MIN /\ b # I32_MIN /\ (-a) <= I32_MAX \div (-b)

\* The sum a + b reduced into the i32 range (a + b - 2^32 or a + b + 2^32).
WrappedSum(a, b) ==
    IF SumInRange(a, b) THEN a + b
    ELSE IF a > 0 THEN (a + I32_MIN) + (b + I32_MIN)
    ELSE (a + I32_MAX + 1) + (b + I32_MAX + 1)

Arg1 == cur.args[1]

Arg2 == cur.args[2]

\* C1: when the sum of a and b is representable, add(a, b) returns exactly
\* a + b, the same as add(b, a), and add(a, 0) returns a; the tested cases
\* add(2,3) = 5, add(-1,1) = 0 and add(0,0) = 0 hold.
AddExact ==
    (cur.fn = "add" /\ SumInRange(Arg1, Arg2)) =>
        /\ cur.out = Returned(Arg1 + Arg2)
        /\ cur.out = add(Arg2, Arg1)
        /\ add(Arg2, Arg1) = Returned(Arg2 + Arg1)
        /\ (Arg2 = 0 => cur.out = Returned(Arg1))
        /\ (cur.args = <<2, 3>> => cur.out = Returned(5))
        /\ (cur.args = <<-1, 1>> => cur.out = Returned(0))
        /\ (cur.args = <<0, 0>> => cur.out = Returned(0))

AddExactWitness ==
    /\ cur.fn = "add"
    /\ cur.args = <<I32_MAX - 1, 1>>
    /\ SumInRange(Arg1, Arg2)
    /\ cur.out = Returned(I32_MAX)

\* C2: multiply(a, b) has the outcome of multiply(b, a) for all a and b, a
\* zero operand gives 0, and when the product is representable the result is
\* exactly a * b (multiply(2,3) = 6, multiply(-2,3) = -6, multiply(0,5) = 0).
MultiplyExact ==
    cur.fn = "multiply" =>
        /\ cur.out = multiply(Arg2, Arg1)
        /\ (Arg1 = 0 \/ Arg2 = 0 => cur.out = Returned(0))
        /\ (ProdInRange(Arg1, Arg2) => cur.out = Returned(Arg1 * Arg2))
        /\ (cur.args = <<2, 3>> => cur.out = Returned(6))
        /\ (cur.args = <<-2, 3>> => cur.out = Returned(-6))
        /\ (cur.args = <<0, 5>> => cur.out = Returned(0))

MultiplyExactWitness ==
    /\ cur.fn = "multiply"
    /\ cur.args = <<-46341, 46340>>
    /\ ProdInRange(Arg1, Arg2)
    /\ cur.out = Returned(-2147441940)

\* C3: is_even(n) returns true exactly when n is divisible by 2, for negative,
\* zero and positive n; the remainder of a negative odd n is -1, and such n
\* are reported as not even.
IsEvenExact ==
    cur.fn = "is_even" =>
        /\ cur.out = Returned(2 * (Arg1 \div 2) = Arg1)
        /\ (Arg1 < 0 /\ 2 * (Arg1 \div 2) # Arg1 =>
                Rem(Arg1, 2) = -1 /\ cur.out = Returned(FALSE))
        /\ (Arg1 \in {-2, 0, 2} => cur.out = Returned(TRUE))
        /\ (Arg1 \in {-1, 1} => cur.out = Returned(FALSE))

IsEvenExactWitness ==
    /\ cur.fn = "is_even"
    /\ Arg1 = -5
    /\ Rem(Arg1, 2) = -1
    /\ cur.out = Returned(FALSE)

CombinedAddIsAdd ==
    /\ cur.fn = "combined_add" => cur.out = add(Arg1, Arg2)
    /\ cur.fn = "add" => cur.out = combined_add(Arg1, Arg2)

CombinedAddIsAddWitness ==
    /\ cur.fn = "combined_add"
    /\ ~SumInRange(Arg1, Arg2)
    /\ overflow_checks
    /\ cur.out = Panicked
    /\ add(Arg1, Arg2) = Panicked

\* C6 as claimed: no call of add, multiply, is_even or combined_add ends in an
\* error, also when the sum or product is out of the i32 range.
NoErrorSignaled == cur.out.kind # "panic"

\* C6 amended: is_even always returns; add, combined_add and multiply return
\* whenever the sum or product is representable; when it is not, the call
\* panics in a build with overflow checks and returns the wrapped result in a
\* build without them.
NoErrorUnlessOverflowChecked ==
    /\ cur.fn = "is_even" => cur.out.kind = "return"
    /\ cur.fn \in {"add", "combined_add"} =>
        IF overflow_checks /\ ~SumInRange(Arg1, Arg2)
        THEN cur.out = Panicked
        ELSE cur.out = Returned(WrappedSum(Arg1, Arg2))
    /\ cur.fn = "multiply" =>
        IF overflow_checks /\ ~ProdInRange(Arg1, Arg2)
        THEN cur.out = Panicked
        ELSE cur.out.kind = "return"

NoErrorUnlessOverflowCheckedWitness ==
    /\ cur.fn = "multiply"
    /\ cur.args = <<46341, 46341>>
    /\ ~ProdInRange(Arg1, Arg2)
    /\ overflow_checks
    /\ cur.out = Panicked

\* C7: when a + b and (a + b) * c are representable, multiply(add(a, b), c)
\* returns (a + b) * c: multiply is called on exactly the value add returned
\* (add(2,3) = 5, then multiply(5, 2) = 10).
ComposeExact ==
    (cur.fn = "multiply" /\ chain.fn = "add") =>
        /\ chain.out = Returned(Arg1)
        /\ (SumInRange(chain.args[1], chain.args[2])
                /\ ProdInRange(chain.args[1] + chain.args[2], Arg2) =>
                    cur.out = Returned((chain.args[1] + chain.args[2]) * Arg2))
        /\ (chain.args = <<2, 3>> /\ Arg2 = 2 => cur.out = Returned(10))

ComposeExactWitness ==
    /\ chain.fn = "add"
    /\ chain.args = <<2, 3>>
    /\ cur.fn = "multiply"
    /\ cur.args = <<5, 2>>
    /\ cur.out = Returned(10)

ParityOfResults ==
    /\ (cur.fn = "add" /\ SumInRange(Arg1, Arg2)) =>
        (is_even(cur.out.value).value
            <=> (is_even(Arg1).value <=> is_even(Arg2).value))
    /\ (cur.fn = "multiply" /\ ProdInRange(Arg1, Arg2)) =>
        (is_even(cur.out.value).value
            <=> (is_even(Arg1).value \/ is_even(Arg2).value))
    /\ (cur.fn = "add" /\ SumInRange(Arg1, Arg2) /\ Arg2 = 1) =>
        (is_even(cur.out.value).value <=> ~is_even(Arg1).value)
    /\ (cur.fn = "multiply" /\ ProdInRange(Arg1, Arg2) /\ Arg1 = 2) =>
        is_even(cur.out.value).value

ParityOfResultsWitness ==
    /\ cur.fn = "multiply"
    /\ cur.args = <<-3, -5>>
    /\ cur.out = Returned(15)
    /\ ~is_even(15).value
    /\ ~is_even(-3).value
    /\ ~is_even(-5).value

====
